---- MODULE Spec2Model ----
(***************************************************************************)
(* Front-end of the portal: the bottom navigation (src/unnamed/part_000),  *)
(* the Places page (src/src/pages/Places.tsx) and the Profile page         *)
(* (src/src/pages/Profile.tsx), each as a state machine over the auth      *)
(* service, the row store and the query cache it talks to.                 *)
(*                                                                         *)
(* Three specifications share the module: SpecNav (bottom navigation),     *)
(* SpecPlaces (places list) and Spec (profile view).                       *)
(*                                                                         *)
(* Every await of the source is a point where other steps may interleave:  *)
(* a call to the auth service or the row store is one step that sends it   *)
(* and one step in which the code resumes with the answer.  The row store  *)
(* may fail any request.  The query cache keeps one fetch per query key,   *)
(* keeps the data it holds when a queryFn throws, and runs onSuccess for   *)
(* every mutation whose mutationFn returns.                                *)
(***************************************************************************)
EXTENDS Naturals, Sequences, FiniteSets

VARIABLES
    \* ---- bottom navigation (part_000)
    authSession,    \* the auth service's current session
    navMounted,     \* BottomNav is mounted
    navSession,     \* useState session (part_000:11)
    getSessionCall, \* the getSession() promise of the mount effect
    navSubscribed,  \* the onAuthStateChange subscription is live
    notifQueue,     \* auth-change notifications not yet delivered
    lastNotified,   \* session of the last delivered notification, or "none"
    euLinkTo,       \* rendered target of the "Eu" link, "none" when unmounted
    \* ---- Places page (Places.tsx)
    placesDb,       \* rows of the remote "places" collection, in storage order
    placesFetch,    \* the places queryFn: its position and the row store's answer
    placesQuery,    \* useQuery(["places"]) state: status and data
    placesView,     \* what the page renders: the spinner or the cards
    \* ---- Profile page (Profile.tsx)
    authUser,       \* identity supabase.auth.getUser() answers with, or Null
    profilesDb,     \* rows of the remote "profiles" collection
    profileQuery,   \* useQuery(["profile"]) state: status, data, freshness
    profileFetch,   \* the profile queryFn in flight: position, identity, answer
    mutations,      \* updateProfile mutations in flight
    isPreviewMode,  \* Profile.tsx:37
    isPhotoDialogOpen,  \* Profile.tsx:38
    isDeleteDialogOpen, \* Profile.tsx:39
    form,           \* react-hook-form values (Profile.tsx:42)
    profileView,    \* what the page renders for the avatar and the cover
    out,            \* what the last step emitted: toasts, throw, mutate(), request
    updated,        \* some updateProfile mutation has resolved successfully
    envEvents       \* inputs and faults the environment has produced so far

navVars == <<authSession, navMounted, navSession, getSessionCall,
             navSubscribed, notifQueue, lastNotified, euLinkTo>>

placesVars == <<placesDb, placesFetch, placesQuery, placesView>>

profileVars == <<authUser, profilesDb, profileQuery, profileFetch, mutations,
                 isPreviewMode, isPhotoDialogOpen, isDeleteDialogOpen, form,
                 profileView, out, updated, envEvents>>

vars == <<navVars, placesVars, profileVars>>

(***************************************************************************)
(* JavaScript values                                                       *)
(***************************************************************************)
Null == "<null>"
Undefined == "<undefined>"

\* JavaScript truthiness of a string-or-null value (session ? a : b, x && y)
Truthy(v) == v \notin {Null, Undefined, ""}

(***************************************************************************)
(* Bottom navigation                                                       *)
(***************************************************************************)
MaxNotif == 2

Sessions == {"s1", "s2"}
SessionValues == Sessions \cup {Null}

\* Faulty variant: the two targets swapped
EuLinkToSwapped(session) == IF Truthy(session) THEN "/login" ELSE "/perfil"

\* <Link to={session ? "/perfil" : "/login"}>
EuLinkTo(session) == IF Truthy(session) THEN "/perfil" ELSE "/login"

\* setSession(s) followed by the re-render it schedules
SetSession(s) ==
    /\ navSession' = s
    /\ euLinkTo' = EuLinkTo(s)

\* State after the first render and the mount effect: session is null,
\* getSession() has been called, the subscription is registered.
InitNav ==
    /\ authSession \in SessionValues
    /\ navMounted = TRUE
    /\ navSession = Null
    /\ getSessionCall = [stage |-> "pending", value |-> Null]
    /\ navSubscribed = TRUE
    /\ notifQueue = <<>>
    /\ lastNotified = "none"
    /\ euLinkTo = EuLinkTo(Null)

\* The auth service changes (or refreshes) its session and notifies subscribers.
AuthEvent(s) ==
    /\ Len(notifQueue) < MaxNotif
    /\ authSession' = s
    /\ notifQueue' = IF navSubscribed THEN Append(notifQueue, s) ELSE notifQueue
    /\ UNCHANGED <<navMounted, navSession, getSessionCall, navSubscribed,
                   lastNotified, euLinkTo>>

\* The auth service determines the value getSession() will resolve with.
GetSessionRead ==
    /\ getSessionCall.stage = "pending"
    /\ getSessionCall' = [stage |-> "read", value |-> authSession]
    /\ UNCHANGED <<authSession, navMounted, navSession, navSubscribed,
                   notifQueue, lastNotified, euLinkTo>>

\* .then(({ data: { session } }) => { setSession(session); })
GetSessionResolve ==
    /\ getSessionCall.stage = "read"
    /\ getSessionCall' = [getSessionCall EXCEPT !.stage = "done"]
    /\ IF navMounted
          THEN SetSession(getSessionCall.value)
          ELSE UNCHANGED <<navSession, euLinkTo>>
    /\ UNCHANGED <<authSession, navMounted, navSubscribed, notifQueue,
                   lastNotified>>

\* onAuthStateChange((_event, session) => { setSession(session); })
NotifyDeliver ==
    /\ navSubscribed
    /\ notifQueue /= <<>>
    /\ SetSession(Head(notifQueue))
    /\ lastNotified' = Head(notifQueue)
    /\ notifQueue' = Tail(notifQueue)
    /\ UNCHANGED <<authSession, navMounted, getSessionCall, navSubscribed>>

\* return () => subscription.unsubscribe();
NavUnmount ==
    /\ navMounted
    /\ navMounted' = FALSE
    /\ navSubscribed' = FALSE
    /\ notifQueue' = <<>>
    /\ euLinkTo' = "none"
    /\ UNCHANGED <<authSession, navSession, getSessionCall, lastNotified>>

\* The bottom navigation is not on screen (the other pages' specifications).
NavParked ==
    /\ authSession = Null
    /\ navMounted = FALSE
    /\ navSession = Null
    /\ getSessionCall = [stage |-> "done", value |-> Null]
    /\ navSubscribed = FALSE
    /\ notifQueue = <<>>
    /\ lastNotified = "none"
    /\ euLinkTo = "none"

(***************************************************************************)
(* Places page                                                             *)
(***************************************************************************)
NoError == "<no error>"
BackendError == "backend error"

\* A text column of a place: null, the empty string or some text.
TextValues == {Null, "", "x"}
\* A key of the social_media JSON object: absent, empty or a link.
SocialKeyValues == {Undefined, "", "x"}

\* social_media is null or an object with optional facebook / instagram keys.
SocialValues ==
    {[isNull |-> TRUE, facebook |-> Undefined, instagram |-> Undefined]} \cup
    [isNull : {FALSE}, facebook : SocialKeyValues, instagram : SocialKeyValues]

PlaceRecords ==
    [id : {"p1"}, name : {"Bar"}, image : {"bar.png"}, description : {Null},
     address : {"Rua 1"}, owner_name : {""}, opening_hours : {"8-18"},
     entrance_fee : {Null},
     phone : TextValues, whatsapp : TextValues, website : TextValues,
     social_media : SocialValues, maps_url : TextValues]

\* A second row, with every optional column null, sorting before "Bar".
PlaceAdega ==
    [id |-> "p2", name |-> "Adega", image |-> Null, description |-> Null,
     address |-> Null, owner_name |-> Null, opening_hours |-> Null,
     entrance_fee |-> Null, phone |-> Null, whatsapp |-> Null, website |-> Null,
     social_media |-> [isNull |-> TRUE, facebook |-> Undefined,
                       instagram |-> Undefined],
     maps_url |-> Null]

\* Collation order of the names in use (strings have no order in TLA+).
NameRank(name) == IF name = "Adega" THEN 1 ELSE 2

RECURSIVE InsertByName(_, _)
InsertByName(row, rows) ==
    IF rows = <<>> THEN <<row>>
    ELSE IF NameRank(row.name) <= NameRank(Head(rows).name)
         THEN <<row>> \o rows
         ELSE <<Head(rows)>> \o InsertByName(row, Tail(rows))

RECURSIVE OrderByName(_)
\* .order("name")
OrderByName(rows) ==
    IF rows = <<>> THEN <<>>
    ELSE InsertByName(Head(rows), OrderByName(Tail(rows)))

\* supabase.from("places").select("*").order("name") -> { data, error }
PlacesSelect(failed) ==
    IF failed THEN [data |-> <<>>, error |-> BackendError]
    ELSE [data |-> OrderByName(placesDb), error |-> NoError]

\* if (error) throw error; return data;
PlacesQueryFn(resp) ==
    IF resp.error /= NoError
       THEN [threw |-> TRUE, value |-> <<>>]
       ELSE [threw |-> FALSE, value |-> resp.data]

\* Faulty variant: the social links hang on the facebook key alone
CardSocialByFacebook(place) ==
    {"name"}
    \cup (IF Truthy(place.image) THEN {"image"} ELSE {})
    \cup (IF Truthy(place.description) THEN {"description"} ELSE {})
    \cup (IF Truthy(place.address) THEN {"address"} ELSE {})
    \cup (IF Truthy(place.owner_name) THEN {"owner_name"} ELSE {})
    \cup (IF Truthy(place.opening_hours) THEN {"opening_hours"} ELSE {})
    \cup (IF Truthy(place.entrance_fee) THEN {"entrance_fee"} ELSE {})
    \cup (IF Truthy(place.phone) THEN {"phone"} ELSE {})
    \cup (IF Truthy(place.whatsapp) THEN {"whatsapp"} ELSE {})
    \cup (IF Truthy(place.website) THEN {"website"} ELSE {})
    \cup (IF ~place.social_media.isNull /\ Truthy(place.social_media.facebook)
             THEN {"facebook", "instagram"} ELSE {})
    \cup (IF Truthy(place.maps_url) THEN {"maps"} ELSE {})

\* The elements one card renders (Places.tsx:45-166): each block is
\* {place.field && (...)}.
Card(place) ==
    {"name"}
    \cup (IF Truthy(place.image) THEN {"image"} ELSE {})
    \cup (IF Truthy(place.description) THEN {"description"} ELSE {})
    \cup (IF Truthy(place.address) THEN {"address"} ELSE {})
    \cup (IF Truthy(place.owner_name) THEN {"owner_name"} ELSE {})
    \cup (IF Truthy(place.opening_hours) THEN {"opening_hours"} ELSE {})
    \cup (IF Truthy(place.entrance_fee) THEN {"entrance_fee"} ELSE {})
    \cup (IF Truthy(place.phone) THEN {"phone"} ELSE {})
    \cup (IF Truthy(place.whatsapp) THEN {"whatsapp"} ELSE {})
    \cup (IF Truthy(place.website) THEN {"website"} ELSE {})
    \cup (IF ~place.social_media.isNull
             THEN (IF Truthy(place.social_media.facebook)
                      THEN {"facebook"} ELSE {})
                  \cup (IF Truthy(place.social_media.instagram)
                         THEN {"instagram"} ELSE {})
             ELSE {})
    \cup (IF Truthy(place.maps_url) THEN {"maps"} ELSE {})

\* isLoading ? spinner : places?.map(card)
PlacesRender(query) ==
    IF query.status = "pending"
       THEN [spinner |-> TRUE, cards |-> <<>>]
       ELSE [spinner |-> FALSE,
             cards |-> [i \in 1..Len(query.data) |-> Card(query.data[i])]]

\* The page has mounted: the query is pending and its queryFn has sent the
\* select.
InitPlaces ==
    /\ \E p \in PlaceRecords :
          placesDb \in {<<p>>, <<p, PlaceAdega>>, <<PlaceAdega, p>>}
    /\ placesFetch = [stage |-> "request",
                      resp |-> [data |-> <<>>, error |-> NoError]]
    /\ placesQuery = [status |-> "pending", data |-> <<>>]
    /\ placesView = PlacesRender(placesQuery)

\* The row store answers the select.
PlacesRespond(failed) ==
    /\ placesFetch.stage = "request"
    /\ placesFetch' = [stage |-> "response", resp |-> PlacesSelect(failed)]
    /\ UNCHANGED <<placesDb, placesQuery, placesView>>

\* The queryFn resumes after the await; the cache stores its outcome (an
\* error keeps the data held so far) and the page renders again.
PlacesSettle ==
    /\ placesFetch.stage = "response"
    /\ LET res == PlacesQueryFn(placesFetch.resp)
           q == IF res.threw
                   THEN [placesQuery EXCEPT !.status = "error"]
                   ELSE [status |-> "success", data |-> res.value]
       IN /\ placesQuery' = q
          /\ placesView' = PlacesRender(q)
    /\ placesFetch' = [placesFetch EXCEPT !.stage = "idle"]
    /\ UNCHANGED placesDb

\* The Places page is not on screen (the other pages' specifications).
PlacesParked ==
    /\ placesDb = <<>>
    /\ placesFetch = [stage |-> "idle", resp |-> [data |-> <<>>, error |-> NoError]]
    /\ placesQuery = [status |-> "pending", data |-> <<>>]
    /\ placesView = [spinner |-> TRUE, cards |-> <<>>]

(***************************************************************************)
(* Profile page                                                            *)
(***************************************************************************)
\* Inputs and faults the environment produces in one run: keystrokes,
\* clicks that call mutate(), identity changes and row-store failures.
MaxEnvEvents == 2

Users == {"u1", "u2"}
UserValues == Users \cup {Null}

\* interface Profile (Profile.tsx:23-32)
Fields == {"id", "username", "full_name", "avatar_url", "cover_url",
           "created_at", "updated_at", "theme_preference"}

\* What the user types into the name inputs and the link inputs.
NameInputs == {"zed"}
UrlInputs == {"", "n.png"}

Slots == {1, 2}

ProfileAna ==
    [id |-> "u1", username |-> "ana", full_name |-> "Ana A",
     avatar_url |-> "a.png", cover_url |-> Null, created_at |-> "t1",
     updated_at |-> "t1", theme_preference |-> "system"]

ProfileBia ==
    [id |-> "u2", username |-> "bia", full_name |-> Null,
     avatar_url |-> Null, cover_url |-> "c.png", created_at |-> "t2",
     updated_at |-> "t2", theme_preference |-> "dark"]

\* An object with no keys: {} as a payload, the form before any value is set.
NoRow == [k \in {} |-> Null]

\* The three shapes of the query's data: undefined, null, a row.
NoData == [kind |-> "undefined", row |-> NoRow]
NullData == [kind |-> "null", row |-> NoRow]
RowData(r) == [kind |-> "row", row |-> r]

\* { ...row, ...values }
Merge(row, values) ==
    [k \in (DOMAIN row) \cup (DOMAIN values) |->
        IF k \in DOMAIN values THEN values[k] ELSE row[k]]

\* form.setValue(k, v)
SetValue(f, k, v) == [x \in (DOMAIN f) \cup {k} |-> IF x = k THEN v ELSE f[x]]

\* form.getValues(k) for each k of keys, as the request body carries it:
\* JSON drops the keys whose value is undefined.
Pick(f, keys) == [k \in (DOMAIN f) \cap keys |-> f[k]]

\* {...form.register(k)}: a mounted input with no value yet reads as "".
Register(f, k) == IF k \in DOMAIN f THEN f ELSE SetValue(f, k, "")

RemoveAt(s, i) == SubSeq(s, 1, i - 1) \o SubSeq(s, i + 1, Len(s))

\* new Error("No user found")
NoUserError == "No user found"

\* An error thrown out of the queryFn or the mutationFn.
Thrown(by, error) == [by |-> by, error |-> error]

NoOut ==
    [toasts |-> <<>>, thrown |-> [by |-> "none", error |-> NoError],
     mutate |-> [called |-> FALSE, values |-> NoRow], request |-> "none"]

NoResp == [data |-> NoData, error |-> NoError]

\* A queryFn that has just been started.
NewFetch == [stage |-> "getUser", user |-> Null, resp |-> NoResp, joined |-> FALSE]
IdleFetch == [stage |-> "idle", user |-> Null, resp |-> NoResp, joined |-> FALSE]

\* .from("profiles").select("*").eq("id", id).single() -> { data, error }:
\* an error unless exactly one row matches.
ProfilesSelectSingle(db, id, failed) ==
    LET matches == {slot \in Slots : db[slot]["id"] = id}
    IN IF failed \/ Cardinality(matches) /= 1
          THEN [data |-> NullData, error |-> BackendError]
          ELSE [data |-> RowData(db[CHOOSE slot \in matches : TRUE]),
                error |-> NoError]

\* .from("profiles").update(values).eq("id", id) -> { error }, with the rows
\* it leaves behind.
ProfilesUpdate(db, values, id, failed) ==
    IF failed
       THEN [db |-> db, error |-> BackendError]
       ELSE [db |-> [slot \in Slots |->
                       IF db[slot]["id"] = id
                          THEN Merge(db[slot], values) ELSE db[slot]],
             error |-> NoError]

\* Faulty variant: the identity is not checked
UserCheckSkipped(user) == FALSE

\* if (!user) throw new Error("No user found");   (Profile.tsx:48 and :63)
NoUserFound(user) == ~Truthy(user)

\* const { data: profile } = await ...single(); return profile;
\* The error of the answer is not read.
ProfileQueryFnResult(resp) == [threw |-> FALSE, value |-> resp.data]

\* if (error) throw error; return true;
MutationFnResult(error) ==
    IF error /= NoError THEN [threw |-> TRUE] ELSE [threw |-> FALSE]

\* {profile?.avatar_url ? <img src={profile.avatar_url}/> : <placeholder/>}
AvatarView(data) ==
    IF data.kind = "row" /\ Truthy(data.row["avatar_url"])
       THEN data.row["avatar_url"] ELSE "placeholder"

\* {profile?.cover_url ? <img src={profile.cover_url}/> : <placeholder/>}
CoverView(data) ==
    IF data.kind = "row" /\ Truthy(data.row["cover_url"])
       THEN data.row["cover_url"] ELSE "placeholder"

ProfileRender(data) == [avatar |-> AvatarView(data), cover |-> CoverView(data)]

\* const defaultAvatarImage = "/placeholder.svg";
defaultAvatarImage == "/placeholder.svg"

\* const defaultCoverImage = "/placeholder.svg";
defaultCoverImage == "/placeholder.svg"

\* A render leaves an element alone while what it renders there is unchanged:
\* a src the onError handler wrote on the <img> stays until the src prop
\* changes or the <img> gives way to the text.
Reconcile(shown, oldProp, newProp) == IF newProp = oldProp THEN shown ELSE newProp

\* The page renders again because the query handed it other data.
ProfileRerender(view, old, new) ==
    [avatar |-> Reconcile(view.avatar, AvatarView(old), AvatarView(new)),
     cover |-> Reconcile(view.cover, CoverView(old), CoverView(new))]

\* Faulty variant: the invalidation starts no fetch
InvalidateNoRefetch(fetch, query) == fetch

\* queryClient.invalidateQueries({ queryKey: ["profile"] }): the query is
\* fetched again.  A fetch in flight is dropped and replaced, except while
\* the query has no data yet: then the fetch in flight is kept and serves
\* the invalidation too.
InvalidateQueries(fetch, query) ==
    IF fetch.stage /= "idle" /\ query.data.kind = "undefined"
       THEN [fetch EXCEPT !.joined = TRUE]
       ELSE NewFetch

\* The fetch an invalidation starts on a query that holds no data puts the
\* query back to "pending"; a query that holds data keeps its status until
\* the fetch ends.
QueryAfterInvalidate(query) ==
    IF query.data.kind = "undefined"
       THEN [query EXCEPT !.status = "pending"]
       ELSE query

\* useEffect(() => { if (profile) form.reset(profile) }, [profile, form]):
\* runs when the query hands the page a different profile.
FormAfterData(f, old, new) ==
    IF new /= old /\ new.kind = "row" THEN new.row ELSE f

\* The page has mounted: preview mode, dialogs closed, the profile query
\* pending with its queryFn awaiting getUser().
InitProfile ==
    /\ authUser \in UserValues
    /\ profilesDb = [slot \in Slots |-> IF slot = 1 THEN ProfileAna ELSE ProfileBia]
    /\ profileQuery = [status |-> "pending", data |-> NoData, fresh |-> FALSE]
    /\ profileFetch = NewFetch
    /\ mutations = <<>>
    /\ isPreviewMode = TRUE
    /\ isPhotoDialogOpen = FALSE
    /\ isDeleteDialogOpen = FALSE
    /\ form = NoRow
    /\ profileView = ProfileRender(NoData)
    /\ out = NoOut
    /\ updated = FALSE
    /\ envEvents = 0

\* ---- environment

\* Sign-in, sign-out or a switch of account (in this tab or another).
AuthChange(u) ==
    /\ envEvents < MaxEnvEvents
    /\ u /= authUser
    /\ authUser' = u
    /\ envEvents' = envEvents + 1
    /\ out' = NoOut
    /\ UNCHANGED <<profilesDb, profileQuery, profileFetch, mutations,
                   isPreviewMode, isPhotoDialogOpen, isDeleteDialogOpen, form,
                   profileView, updated>>

\* ---- the profile query (Profile.tsx:44-58)

\* getUser() resolves in the queryFn: throw without a user, else send the
\* select.  A throw puts the query in the error state and keeps its data.
FetchGetUser ==
    /\ profileFetch.stage = "getUser"
    /\ IF NoUserFound(authUser)
          THEN /\ profileFetch' = IdleFetch
               /\ profileQuery' = [profileQuery EXCEPT !.status = "error"]
               /\ out' = [NoOut EXCEPT !.thrown = Thrown("queryFn", NoUserError)]
          ELSE /\ profileFetch' = [profileFetch EXCEPT !.stage = "select",
                                                       !.user = authUser]
               /\ profileQuery' = profileQuery
               /\ out' = [NoOut EXCEPT !.request = "select"]
    /\ UNCHANGED <<authUser, profilesDb, mutations, isPreviewMode,
                   isPhotoDialogOpen, isDeleteDialogOpen, form, profileView,
                   updated, envEvents>>

\* The row store answers the select.
FetchRespond(failed) ==
    /\ profileFetch.stage = "select"
    /\ failed => envEvents < MaxEnvEvents
    /\ envEvents' = IF failed THEN envEvents + 1 ELSE envEvents
    /\ profileFetch' =
          [profileFetch EXCEPT
              !.stage = "response",
              !.resp = ProfilesSelectSingle(profilesDb, profileFetch.user, failed)]
    /\ out' = NoOut
    /\ UNCHANGED <<authUser, profilesDb, profileQuery, mutations,
                   isPreviewMode, isPhotoDialogOpen, isDeleteDialogOpen, form,
                   profileView, updated>>

\* The queryFn returns; the cache stores the result, the page renders it and
\* the effect resets the form.
FetchSettle ==
    /\ profileFetch.stage = "response"
    /\ LET res == ProfileQueryFnResult(profileFetch.resp)
           q == IF res.threw
                   THEN [profileQuery EXCEPT !.status = "error"]
                   ELSE [status |-> "success", data |-> res.value,
                         fresh |-> ~profileFetch.joined]
       IN /\ profileQuery' = q
          /\ profileView' = ProfileRerender(profileView, profileQuery.data, q.data)
          /\ form' = FormAfterData(form, profileQuery.data, q.data)
          /\ out' = IF res.threw
                       THEN [NoOut EXCEPT !.thrown = Thrown("queryFn", BackendError)]
                       ELSE NoOut
    /\ profileFetch' = IdleFetch
    /\ UNCHANGED <<authUser, profilesDb, mutations, isPreviewMode,
                   isPhotoDialogOpen, isDeleteDialogOpen, updated, envEvents>>

\* ---- updateProfile (Profile.tsx:60-81)

\* updateProfile.mutate(values): a mutation starts, awaiting getUser().
Mutate(values) ==
    /\ mutations' = Append(mutations,
                           [stage |-> "getUser", values |-> values,
                            user |-> Null, error |-> NoError])

\* getUser() resolves in the mutationFn: throw without a user, else send
\* the update.
MutationGetUser(i) ==
    /\ mutations[i].stage = "getUser"
    /\ IF NoUserFound(authUser)
          THEN /\ mutations' = RemoveAt(mutations, i)
               /\ out' = [NoOut EXCEPT !.thrown = Thrown("mutationFn", NoUserError)]
          ELSE /\ mutations' = [mutations EXCEPT ![i].stage = "update",
                                                 ![i].user = authUser]
               /\ out' = [NoOut EXCEPT !.request = "update"]
    /\ UNCHANGED <<authUser, profilesDb, profileQuery, profileFetch,
                   isPreviewMode, isPhotoDialogOpen, isDeleteDialogOpen, form,
                   profileView, updated, envEvents>>

\* The row store applies the update, or fails, and answers.
MutationRespond(i, failed) ==
    /\ mutations[i].stage = "update"
    /\ failed => envEvents < MaxEnvEvents
    /\ envEvents' = IF failed THEN envEvents + 1 ELSE envEvents
    /\ LET r == ProfilesUpdate(profilesDb, mutations[i].values,
                               mutations[i].user, failed)
       IN /\ profilesDb' = r.db
          /\ mutations' = [mutations EXCEPT ![i].stage = "response",
                                            ![i].error = r.error]
    /\ out' = NoOut
    /\ UNCHANGED <<authUser, profileQuery, profileFetch, isPreviewMode,
                   isPhotoDialogOpen, isDeleteDialogOpen, form, profileView,
                   updated>>

\* onSuccess: invalidate the profile query, toast, close the photo dialog.
OnSuccess ==
    /\ profileFetch' = InvalidateQueries(profileFetch, profileQuery)
    /\ profileQuery' = QueryAfterInvalidate(profileQuery)
    /\ out' = [NoOut EXCEPT !.toasts = <<"Perfil atualizado">>,
                            !.request = "invalidate"]
    /\ isPhotoDialogOpen' = FALSE
    /\ updated' = TRUE

\* The mutationFn returns or throws; onSuccess runs after a return only.
MutationSettle(i) ==
    /\ mutations[i].stage = "response"
    /\ mutations' = RemoveAt(mutations, i)
    /\ IF MutationFnResult(mutations[i].error).threw
          THEN /\ out' = [NoOut EXCEPT !.thrown = Thrown("mutationFn", BackendError)]
               /\ UNCHANGED <<profileFetch, profileQuery, isPhotoDialogOpen,
                              updated>>
          ELSE OnSuccess
    /\ UNCHANGED <<authUser, profilesDb, isPreviewMode, isDeleteDialogOpen,
                   form, profileView, envEvents>>

\* ---- the pictures (Profile.tsx:125-138, 164-177)

\* The avatar picture fails to load: onError writes the default picture on
\* the <img>, outside the page's state.
AvatarOnError ==
    /\ AvatarView(profileQuery.data) /= "placeholder"
    /\ envEvents < MaxEnvEvents
    /\ envEvents' = envEvents + 1
    /\ profileView' = [profileView EXCEPT !.avatar = defaultAvatarImage]
    /\ out' = NoOut
    /\ UNCHANGED <<authUser, profilesDb, profileQuery, profileFetch, mutations,
                   isPreviewMode, isPhotoDialogOpen, isDeleteDialogOpen, form,
                   updated>>

\* The cover picture fails to load: onError writes the default picture on
\* the <img>, outside the page's state.
CoverOnError ==
    /\ CoverView(profileQuery.data) /= "placeholder"
    /\ envEvents < MaxEnvEvents
    /\ envEvents' = envEvents + 1
    /\ profileView' = [profileView EXCEPT !.cover = defaultCoverImage]
    /\ out' = NoOut
    /\ UNCHANGED <<authUser, profilesDb, profileQuery, profileFetch, mutations,
                   isPreviewMode, isPhotoDialogOpen, isDeleteDialogOpen, form,
                   updated>>

\* ---- the page's controls

\* "Editar Perfil": setIsPreviewMode(false); the form and its two inputs mount.
ClickEditarPerfil ==
    /\ isPreviewMode
    /\ isPreviewMode' = FALSE
    /\ form' = Register(Register(form, "username"), "full_name")
    /\ out' = NoOut
    /\ UNCHANGED <<authUser, profilesDb, profileQuery, profileFetch, mutations,
                   isPhotoDialogOpen, isDeleteDialogOpen, profileView, updated,
                   envEvents>>

\* "Editar Foto" (always rendered) or a camera button (edit mode):
\* setIsPhotoDialogOpen(true).
OpenPhotoDialog ==
    /\ ~isPhotoDialogOpen
    /\ isPhotoDialogOpen' = TRUE
    /\ out' = NoOut
    /\ UNCHANGED <<authUser, profilesDb, profileQuery, profileFetch, mutations,
                   isPreviewMode, isDeleteDialogOpen, form, profileView,
                   updated, envEvents>>

\* The photo dialog is dismissed: onOpenChange(false).
ClosePhotoDialog ==
    /\ isPhotoDialogOpen
    /\ isPhotoDialogOpen' = FALSE
    /\ out' = NoOut
    /\ UNCHANGED <<authUser, profilesDb, profileQuery, profileFetch, mutations,
                   isPreviewMode, isDeleteDialogOpen, form, profileView,
                   updated, envEvents>>

\* A trash button, rendered in edit mode only: setIsDeleteDialogOpen(true).
OpenDeleteDialog ==
    /\ ~isPreviewMode
    /\ ~isDeleteDialogOpen
    /\ isDeleteDialogOpen' = TRUE
    /\ out' = NoOut
    /\ UNCHANGED <<authUser, profilesDb, profileQuery, profileFetch, mutations,
                   isPreviewMode, isPhotoDialogOpen, form, profileView,
                   updated, envEvents>>

\* The delete dialog is dismissed: onOpenChange(false).
CloseDeleteDialog ==
    /\ isDeleteDialogOpen
    /\ isDeleteDialogOpen' = FALSE
    /\ out' = NoOut
    /\ UNCHANGED <<authUser, profilesDb, profileQuery, profileFetch, mutations,
                   isPreviewMode, isPhotoDialogOpen, form, profileView,
                   updated, envEvents>>

\* A keystroke in a registered input of the edit form.
TypeInForm(k, v) ==
    /\ ~isPreviewMode
    /\ envEvents < MaxEnvEvents
    /\ envEvents' = envEvents + 1
    /\ form' = SetValue(form, k, v)
    /\ out' = NoOut
    /\ UNCHANGED <<authUser, profilesDb, profileQuery, profileFetch, mutations,
                   isPreviewMode, isPhotoDialogOpen, isDeleteDialogOpen,
                   profileView, updated>>

\* A keystroke in a link input of the photo dialog:
\* onChange={(e) => form.setValue(k, e.target.value)}
TypeInPhotoDialog(k, v) ==
    /\ isPhotoDialogOpen
    /\ envEvents < MaxEnvEvents
    /\ envEvents' = envEvents + 1
    /\ form' = SetValue(form, k, v)
    /\ out' = NoOut
    /\ UNCHANGED <<authUser, profilesDb, profileQuery, profileFetch, mutations,
                   isPreviewMode, isPhotoDialogOpen, isDeleteDialogOpen,
                   profileView, updated>>

\* "Salvar": updateProfile.mutate(form.getValues())
SubmitForm ==
    /\ ~isPreviewMode
    /\ envEvents < MaxEnvEvents
    /\ envEvents' = envEvents + 1
    /\ Mutate(form)
    /\ out' = [NoOut EXCEPT !.mutate = [called |-> TRUE, values |-> form]]
    /\ UNCHANGED <<authUser, profilesDb, profileQuery, profileFetch,
                   isPreviewMode, isPhotoDialogOpen, isDeleteDialogOpen, form,
                   profileView, updated>>

\* "Salvar alterações": updateProfile.mutate({ avatar_url, cover_url })
SavePhotos ==
    /\ isPhotoDialogOpen
    /\ envEvents < MaxEnvEvents
    /\ envEvents' = envEvents + 1
    /\ LET values == Pick(form, {"avatar_url", "cover_url"})
       IN /\ Mutate(values)
          /\ out' = [NoOut EXCEPT !.mutate = [called |-> TRUE, values |-> values]]
    /\ UNCHANGED <<authUser, profilesDb, profileQuery, profileFetch,
                   isPreviewMode, isPhotoDialogOpen, isDeleteDialogOpen, form,
                   profileView, updated>>

\* The body of handleDeleteAvatar / handleDeleteCover for the column k.
HandleDelete(k, title) ==
    /\ isDeleteDialogOpen
    /\ envEvents < MaxEnvEvents
    /\ envEvents' = envEvents + 1
    /\ form' = SetValue(form, k, Null)
    /\ LET values == [x \in {k} |-> Null]
       IN /\ Mutate(values)
          /\ out' = [NoOut EXCEPT !.mutate = [called |-> TRUE, values |-> values],
                                  !.toasts = <<title>>]
    /\ isDeleteDialogOpen' = FALSE
    /\ UNCHANGED <<authUser, profilesDb, profileQuery, profileFetch,
                   isPreviewMode, isPhotoDialogOpen, profileView, updated>>

\* Faulty variant: the deletion sends the whole form
HandleDeleteAvatarWholeForm ==
    /\ isDeleteDialogOpen
    /\ envEvents < MaxEnvEvents
    /\ envEvents' = envEvents + 1
    /\ form' = SetValue(form, "avatar_url", Null)
    /\ LET values == SetValue(form, "avatar_url", Null)
       IN /\ Mutate(values)
          /\ out' = [NoOut EXCEPT !.mutate = [called |-> TRUE, values |-> values],
                                  !.toasts = <<"Foto de perfil removida">>]
    /\ isDeleteDialogOpen' = FALSE
    /\ UNCHANGED <<authUser, profilesDb, profileQuery, profileFetch,
                   isPreviewMode, isPhotoDialogOpen, profileView, updated>>

\* "Excluir foto de perfil"
HandleDeleteAvatar == HandleDelete("avatar_url", "Foto de perfil removida")

\* "Excluir foto de capa"
HandleDeleteCover == HandleDelete("cover_url", "Foto de capa removida")

\* The Profile page is not on screen (the other pages' specifications).
ProfileParked ==
    /\ authUser = Null
    /\ profilesDb = [slot \in Slots |-> IF slot = 1 THEN ProfileAna ELSE ProfileBia]
    /\ profileQuery = [status |-> "pending", data |-> NoData, fresh |-> FALSE]
    /\ profileFetch = IdleFetch
    /\ mutations = <<>>
    /\ isPreviewMode = TRUE
    /\ isPhotoDialogOpen = FALSE
    /\ isDeleteDialogOpen = FALSE
    /\ form = NoRow
    /\ profileView = ProfileRender(NoData)
    /\ out = NoOut
    /\ updated = FALSE
    /\ envEvents = 0

(***************************************************************************)
(* Specifications                                                          *)
(***************************************************************************)
NextNav ==
    \/ \E s \in SessionValues : AuthEvent(s) /\ UNCHANGED <<placesVars, profileVars>>
    \/ GetSessionRead /\ UNCHANGED <<placesVars, profileVars>>
    \/ GetSessionResolve /\ UNCHANGED <<placesVars, profileVars>>
    \/ NotifyDeliver /\ UNCHANGED <<placesVars, profileVars>>
    \/ NavUnmount /\ UNCHANGED <<placesVars, profileVars>>

InitNavOnly == InitNav /\ PlacesParked /\ ProfileParked

SpecNav == InitNavOnly /\ [][NextNav]_vars

NextPlaces ==
    \/ \E failed \in BOOLEAN :
          PlacesRespond(failed) /\ UNCHANGED <<navVars, profileVars>>
    \/ PlacesSettle /\ UNCHANGED <<navVars, profileVars>>

InitPlacesOnly == InitPlaces /\ NavParked /\ ProfileParked

SpecPlaces == InitPlacesOnly /\ [][NextPlaces]_vars

\* The profile page's steps leave the other components alone.
OthersUnchanged == UNCHANGED <<navVars, placesVars>>

Next ==
    \/ \E u \in UserValues : AuthChange(u) /\ OthersUnchanged
    \/ FetchGetUser /\ OthersUnchanged
    \/ \E failed \in BOOLEAN : FetchRespond(failed) /\ OthersUnchanged
    \/ FetchSettle /\ OthersUnchanged
    \/ \E i \in DOMAIN mutations : MutationGetUser(i) /\ OthersUnchanged
    \/ \E i \in DOMAIN mutations, failed \in BOOLEAN :
          MutationRespond(i, failed) /\ OthersUnchanged
    \/ \E i \in DOMAIN mutations : MutationSettle(i) /\ OthersUnchanged
    \/ AvatarOnError /\ OthersUnchanged
    \/ CoverOnError /\ OthersUnchanged
    \/ ClickEditarPerfil /\ OthersUnchanged
    \/ OpenPhotoDialog /\ OthersUnchanged
    \/ ClosePhotoDialog /\ OthersUnchanged
    \/ OpenDeleteDialog /\ OthersUnchanged
    \/ CloseDeleteDialog /\ OthersUnchanged
    \/ \E k \in {"username", "full_name"}, v \in NameInputs :
          TypeInForm(k, v) /\ OthersUnchanged
    \/ \E k \in {"avatar_url", "cover_url"}, v \in UrlInputs :
          TypeInPhotoDialog(k, v) /\ OthersUnchanged
    \/ SubmitForm /\ OthersUnchanged
    \/ SavePhotos /\ OthersUnchanged
    \/ HandleDeleteAvatar /\ OthersUnchanged
    \/ HandleDeleteCover /\ OthersUnchanged

Init == InitProfile /\ NavParked /\ PlacesParked

Spec == Init /\ [][Next]_vars

(***************************************************************************)
(* Properties                                                              *)
(***************************************************************************)

\* C1: while the bottom navigation is mounted, the "Eu" link points to
\* /perfil when the held session is present and to /login when it is
\* absent, and to nothing else.
C1_EuLinkFollowsSession ==
    navMounted =>
        /\ euLinkTo \in {"/perfil", "/login"}
        /\ (navSession /= Null => euLinkTo = "/perfil")
        /\ (navSession = Null => euLinkTo = "/login")

\* C1 witness: a delivered notification has put a present session in the
\* component and the link points to /perfil.
C1_Witness ==
    /\ navMounted
    /\ lastNotified = "s1"
    /\ navSession = "s1"
    /\ euLinkTo = "/perfil"

\* C2: once any notification has been delivered, the held session is the
\* session of the most recent notification (so the link stays /perfil after
\* a login until a notification delivers an absent session), whatever the
\* order in which getSession() resolves and notifications arrive.
C2_HeldSessionIsLastNotified ==
    (navMounted /\ lastNotified /= "none") =>
        /\ navSession = lastNotified
        /\ (lastNotified /= Null => euLinkTo = "/perfil")

\* Nothing of the profile page is in flight.
AtRest == profileFetch.stage = "idle" /\ mutations = <<>>

\* The profile on screen is a row of the store as it is now.
ShownIsServerRow ==
    /\ profileQuery.data.kind = "row"
    /\ \E slot \in Slots : profilesDb[slot] = profileQuery.data.row

\* The number of mutations at a position.
CountStage(ms, stage) == Cardinality({i \in DOMAIN ms : ms[i].stage = stage})

\* C3 as stated: after an updateProfile mutation has resolved successfully,
\* the state the view comes to rest in shows the server row, never a stale
\* or missing profile.
C3_ShownEqualsServerAtRest == (updated /\ AtRest) => ShownIsServerRow

\* C3 amended: a successful mutation leaves a profile fetch in flight, and
\* when the view is at rest holding a row delivered by a successful fetch
\* that no invalidation had to join, that row is the server's row.
C3_RefetchedShownEqualsServer ==
    /\ [](( /\ AtRest
            /\ profileQuery.status = "success"
            /\ profileQuery.fresh
            /\ profileQuery.data.kind = "row") => ShownIsServerRow)
    /\ [][(~updated /\ updated') => profileFetch'.stage /= "idle"]_vars
    /\ [][CountStage(mutations', "response") < CountStage(mutations, "response")
            /\ out'.thrown.by = "none"
          => profileFetch'.stage /= "idle" /\ out'.request = "invalidate"]_vars

\* C3 witness: the typed username has been saved, refetched and is shown.
C3_Witness ==
    /\ AtRest
    /\ updated
    /\ profileQuery.status = "success"
    /\ profileQuery.fresh
    /\ profileQuery.data.kind = "row"
    /\ profileQuery.data.row["id"] = "u1"
    /\ profileQuery.data.row["username"] = "zed"
    /\ profilesDb[1]["username"] = "zed"

\* C4: a deletion sends exactly { avatar_url: null } (or { cover_url: null });
\* an applied deletion empties that column of the identity's row and changes
\* nothing else; and once the view is at rest on a refetched row whose
\* column is empty in the store, it renders the placeholder.
C4_DeleteEmptiesOnlyThatUrl ==
    /\ [][\A k \in {"avatar_url", "cover_url"} :
            ( /\ Len(mutations') = Len(mutations) + 1
              /\ out'.toasts = <<IF k = "avatar_url"
                                    THEN "Foto de perfil removida"
                                    ELSE "Foto de capa removida">> )
            => /\ DOMAIN mutations'[Len(mutations')].values = {k}
               /\ mutations'[Len(mutations')].values[k] = Null]_vars
    /\ [][\A i \in DOMAIN mutations : \A k \in {"avatar_url", "cover_url"} :
            ( /\ mutations[i].stage = "update"
              /\ mutations[i].values = [x \in {k} |-> Null]
              /\ Len(mutations') = Len(mutations)
              /\ mutations'[i].stage = "response"
              /\ mutations'[i].error = NoError )
            => \A slot \in Slots :
                 profilesDb'[slot] =
                    IF profilesDb[slot]["id"] = mutations[i].user
                       THEN [profilesDb[slot] EXCEPT ![k] = Null]
                       ELSE profilesDb[slot]]_vars
    /\ [](( /\ AtRest
            /\ profileQuery.status = "success"
            /\ profileQuery.fresh
            /\ profileQuery.data.kind = "row")
           => \A slot \in Slots :
                profilesDb[slot]["id"] = profileQuery.data.row["id"]
                => /\ profilesDb[slot]["avatar_url"] = Null
                      => profileView.avatar = "placeholder"
                   /\ profilesDb[slot]["cover_url"] = Null
                      => profileView.cover = "placeholder")

\* C4 witness: the avatar of u1 has been deleted, the row refetched, and
\* the view shows the placeholder where "a.png" was.
C4_Witness ==
    /\ AtRest
    /\ updated
    /\ profileQuery.status = "success"
    /\ profileQuery.fresh
    /\ profileQuery.data.kind = "row"
    /\ profileQuery.data.row["id"] = "u1"
    /\ profilesDb[1]["avatar_url"] = Null
    /\ profilesDb[1]["cover_url"] = ProfileAna["cover_url"]
    /\ profilesDb[1]["username"] = ProfileAna["username"]
    /\ profileView.avatar = "placeholder"

\* C5: a step changes a profile row only if an update of the identity with
\* that row's id is being applied, it never changes a row's id, and it
\* never writes a place row.
C5_OnlyAuthenticatedRowChanges ==
    [][ /\ \A slot \in Slots :
             profilesDb'[slot] /= profilesDb[slot]
             => /\ profilesDb'[slot]["id"] = profilesDb[slot]["id"]
                /\ \E i \in DOMAIN mutations :
                      /\ mutations[i].stage = "update"
                      /\ mutations[i].user = profilesDb[slot]["id"]
        /\ placesDb' = placesDb ]_vars

\* C6: with no identity, the queryFn and the mutationFn throw "No user
\* found" and send nothing: the rows and the cached profile stay as they
\* are; a request in flight always carries an identity, and a row answered
\* to the select is the one row of the store whose id is that identity.
C6_NoUserNoRequest ==
    /\ [][( /\ ~Truthy(authUser)
            /\ profileFetch.stage = "getUser"
            /\ profileFetch'.stage /= "getUser" )
          => /\ profileFetch'.stage = "idle"
             /\ out'.thrown = Thrown("queryFn", NoUserError)
             /\ out'.request = "none"
             /\ profileQuery'.status = "error"
             /\ profileQuery'.data = profileQuery.data
             /\ profilesDb' = profilesDb]_vars
    /\ [][( /\ ~Truthy(authUser)
            /\ CountStage(mutations', "getUser") < CountStage(mutations, "getUser") )
          => /\ Len(mutations') = Len(mutations) - 1
             /\ CountStage(mutations', "update") = CountStage(mutations, "update")
             /\ out'.thrown = Thrown("mutationFn", NoUserError)
             /\ out'.request = "none"
             /\ out'.toasts = <<>>
             /\ updated' = updated
             /\ profileQuery' = profileQuery
             /\ profilesDb' = profilesDb]_vars
    /\ [](profileFetch.stage \in {"select", "response"}
              => profileFetch.user \in Users)
    /\ [](\A i \in DOMAIN mutations :
              mutations[i].stage \in {"update", "response"}
              => mutations[i].user \in Users)
    /\ [][( /\ profileFetch.stage = "select"
            /\ profileFetch'.stage = "response"
            /\ profileFetch'.resp.data.kind = "row" )
          => \E slot \in Slots :
                /\ profilesDb[slot] = profileFetch'.resp.data.row
                /\ profilesDb[slot]["id"] = profileFetch.user
                /\ \A other \in Slots :
                      profilesDb[other]["id"] = profileFetch.user => other = slot]_vars

\* C6 witness: signed out, the profile fetch has failed earlier and a
\* mutation has just been refused, with the rows as they started.
C6_Witness ==
    /\ authUser = Null
    /\ profileQuery.status = "error"
    /\ out.thrown = Thrown("mutationFn", NoUserError)
    /\ mutations = <<>>
    /\ profilesDb[1] = ProfileAna
    /\ profilesDb[2] = ProfileBia

\* C7: an answer of the row store that carries an error ends the query or
\* the mutation it belongs to in the error state: the places fetch, the
\* profile fetch and the profile update.
C7_BackendErrorsAreThrown ==
    [][ /\ ( /\ placesFetch.stage = "response"
             /\ placesFetch'.stage = "idle"
             /\ placesFetch.resp.error /= NoError )
           => placesQuery'.status = "error"
        /\ ( /\ profileFetch.stage = "response"
             /\ profileFetch'.stage = "idle"
             /\ profileFetch.resp.error /= NoError )
           => profileQuery'.status = "error"
        /\ \A i \in DOMAIN mutations :
             ( /\ mutations[i].stage = "response"
               /\ mutations[i].error /= NoError
               /\ mutations' = RemoveAt(mutations, i) )
             => /\ out'.thrown = Thrown("mutationFn", BackendError)
                /\ out'.toasts = <<>> ]_vars

\* The value the loaded profile holds for a column (undefined before a load).
Loaded(k) ==
    IF profileQuery.data.kind = "row" THEN profileQuery.data.row[k] ELSE Undefined

\* C8: the body of every update that is issued holds only columns whose
\* value differs from the loaded profile's.
C8_OnlyChangedFieldsSent ==
    [][Len(mutations') = Len(mutations) + 1
       => \A k \in DOMAIN mutations'[Len(mutations')].values :
             mutations'[Len(mutations')].values[k] /= Loaded(k)]_vars

\* A contact field holds something.
NonEmpty(v) == v /= Null /\ v /= Undefined /\ v /= ""

\* C9: each card shows the phone, whatsapp, website, facebook, instagram
\* and maps links exactly for the fields of its place that are non-empty.
C9_AffordanceIffFieldNonEmpty ==
    ~placesView.spinner =>
        /\ Len(placesView.cards) = Len(placesQuery.data)
        /\ \A i \in DOMAIN placesView.cards :
              LET place == placesQuery.data[i]
                  card == placesView.cards[i]
              IN /\ ("phone" \in card) <=> NonEmpty(place.phone)
                 /\ ("whatsapp" \in card) <=> NonEmpty(place.whatsapp)
                 /\ ("website" \in card) <=> NonEmpty(place.website)
                 /\ ("maps" \in card) <=> NonEmpty(place.maps_url)
                 /\ ("facebook" \in card) <=>
                       (~place.social_media.isNull
                        /\ NonEmpty(place.social_media.facebook))
                 /\ ("instagram" \in card) <=>
                       (~place.social_media.isNull
                        /\ NonEmpty(place.social_media.instagram))

\* C9 witness: the list has loaded and the second card shows a phone and an
\* instagram link but no whatsapp (empty string) and no facebook (no key).
C9_Witness ==
    /\ placesQuery.status = "success"
    /\ Len(placesView.cards) = 2
    /\ placesQuery.data[2].whatsapp = ""
    /\ placesQuery.data[2].social_media.facebook = Undefined
    /\ {"phone", "instagram"} \subseteq placesView.cards[2]
    /\ placesView.cards[2] \cap {"whatsapp", "facebook"} = {}

\* C10: the view starts in preview mode, and no step taken in preview mode
\* issues an updateProfile mutation.
C10_PreviewIsReadOnly ==
    [][isPreviewMode => Len(mutations') <= Len(mutations)]_vars

\* C11: a step emits a success toast only when it settles a mutation whose
\* update the row store answered without error; and a step in which the
\* mutationFn throws (no identity, or a row-store error) emits no toast and
\* closes no dialog.
C11_SuccessToastOnlyAfterSuccess ==
    [][ /\ out'.toasts /= <<>>
           => \E i \in DOMAIN mutations :
                 /\ mutations[i].stage = "response"
                 /\ mutations[i].error = NoError
                 /\ mutations' = RemoveAt(mutations, i)
        /\ out'.thrown.by = "mutationFn"
           => /\ out'.toasts = <<>>
              /\ isPhotoDialogOpen' = isPhotoDialogOpen
              /\ isDeleteDialogOpen' = isDeleteDialogOpen ]_vars

====
